---- MODULE Spec2Model ----
(***************************************************************************)
(* fastapi-cacher: the configuration model (fastapi_cacher/config.py) and  *)
(* the cache contract (fastapi_cacher/base.py).                            *)
(*                                                                         *)
(* CacheConfig is a pydantic (v2) BaseModel.  Constructing it validates    *)
(* every supplied field against its annotation, runs the field validator   *)
(* of cache_type, and, only when no field failed, runs the mode='after'    *)
(* model validator validate_connection_attributes on the built instance.   *)
(* The model's Config sets arbitrary_types_allowed only: the instance is   *)
(* neither frozen nor validated on assignment.                             *)
(*                                                                         *)
(* Python values are modelled as tagged records so that values of          *)
(* different Python types can be stored in one field.  The fields no       *)
(* validator reads (app_space, coder, the ports, database and threshold    *)
(* fields, the duration constants) are left out; default_timeout,          *)
(* sliding_expiration and the connection fields stand for the int, bool    *)
(* and str annotations.                                                    *)
(*                                                                         *)
(* base.py declares the cache contract as abstract methods only.  The      *)
(* cache operations below follow the contract's description for the        *)
(* in-process backend: an expired entry is a miss, a read under            *)
(* sliding_expiration restores the entry's full duration, an omitted       *)
(* expire takes default_timeout.                                           *)
(***************************************************************************)
EXTENDS Integers, Sequences, FiniteSets, TLC

VARIABLES
    args,       \* the keyword arguments of the CacheConfig(...) call
    cfg,        \* the CacheConfig instance the caller holds, or NoConfig
    errors,     \* the validation errors raised by the last operation
    evaluated,  \* whether validate_connection_attributes ran in the call
    assigned,   \* whether an attribute of the instance was assigned since
    op,         \* the last operation performed
    store,      \* the cache's table: key -> entry, or NoEntry
    now,        \* the clock, in whole seconds
    ret,        \* the value returned by the last cache operation
    hist        \* per key, what was last set and when it was last set and hit

vars == <<args, cfg, errors, evaluated, assigned, op, store, now, ret, hist>>

confVars == <<args, cfg, errors, evaluated, assigned>>
cacheVars == <<store, now, ret, hist>>

---------------------------------------------------------------------------
(* Python values *)

Absent == [kind |-> "absent", s |-> "", n |-> 0, b |-> FALSE]
PyNone == [kind |-> "none", s |-> "", n |-> 0, b |-> FALSE]
PyStr(x) == [kind |-> "str", s |-> x, n |-> 0, b |-> FALSE]
PyInt(k) == [kind |-> "int", s |-> "", n |-> k, b |-> FALSE]
PyBool(v) == [kind |-> "bool", s |-> "", n |-> 0, b |-> v]

\* bool(v) of Python, as `not v` and all([...]) apply it
Truthy(v) ==
    CASE v.kind = "str" -> v.s # ""
      [] v.kind = "int" -> v.n # 0
      [] v.kind = "bool" -> v.b
      [] OTHER -> FALSE

\* the value a failed construction leaves the caller with
NoConfig == <<>>

---------------------------------------------------------------------------
(* The declared fields *)

\* the literal with a fifth, unsupported, member
SUPPORTED_CACHE_TYPES_with_bogus ==
    <<"SimpleCache", "RedisCache", "MongoCache", "MemCache", "bogus">>

SUPPORTED_CACHE_TYPES == <<"SimpleCache", "RedisCache", "MongoCache", "MemCache">>

get_args(literal) == {literal[i] : i \in DOMAIN literal}

Fields ==
    {"cache_type", "default_timeout", "sliding_expiration", "redis_url",
     "redis_host", "redis_password", "mongo_url", "memcache_host"}

ConnectionFields ==
    {"redis_url", "redis_host", "redis_password", "mongo_url", "memcache_host"}

FieldType(f) ==
    CASE f = "cache_type" -> "literal"
      [] f = "default_timeout" -> "int"
      [] f = "sliding_expiration" -> "bool"
      [] OTHER -> "str"

\* the default cache type needing a connection
Default_redis(f) ==
    CASE f = "cache_type" -> PyStr("RedisCache")
      [] f = "default_timeout" -> PyInt(300)
      [] f = "sliding_expiration" -> PyBool(FALSE)
      [] f \in {"redis_host", "redis_password"} -> PyNone
      [] OTHER -> PyStr("")

Default(f) ==
    CASE f = "cache_type" -> PyStr("SimpleCache")
      [] f = "default_timeout" -> PyInt(300)
      [] f = "sliding_expiration" -> PyBool(FALSE)
      [] f \in {"redis_host", "redis_password"} -> PyNone
      [] OTHER -> PyStr("")

---------------------------------------------------------------------------
(* Validation of one field *)

Ok(v) == [ok |-> TRUE, value |-> v, type |-> "", names |-> {}]
Fail(t, ns) == [ok |-> FALSE, value |-> PyNone, type |-> t, names |-> ns]

\* int("...") for the strings of the model
int_of_str(x) ==
    CASE x = "7" -> Ok(PyInt(7))
      [] x = "0" -> Ok(PyInt(0))
      [] OTHER -> Fail("int_parsing", {})

\* the int annotation letting any value through
ValidateType_unchecked_int(type, raw) ==
    CASE type = "literal" ->
            IF raw.kind = "str" /\ raw.s \in get_args(SUPPORTED_CACHE_TYPES)
            THEN Ok(raw)
            ELSE Fail("literal_error", get_args(SUPPORTED_CACHE_TYPES))
      [] type = "int" -> Ok(raw)
      [] type = "bool" ->
            CASE raw.kind = "bool" -> Ok(raw)
              [] raw.kind = "int" /\ raw.n \in {0, 1} -> Ok(PyBool(raw.n = 1))
              [] OTHER -> Fail("bool_parsing", {})
      [] OTHER ->
            IF raw.kind = "str" THEN Ok(raw) ELSE Fail("string_type", {})

\* the annotation's check of a supplied value (pydantic's lax mode)
ValidateType(type, raw) ==
    CASE type = "literal" ->
            IF raw.kind = "str" /\ raw.s \in get_args(SUPPORTED_CACHE_TYPES)
            THEN Ok(raw)
            ELSE Fail("literal_error", get_args(SUPPORTED_CACHE_TYPES))
      [] type = "int" ->
            CASE raw.kind = "int" -> Ok(raw)
              [] raw.kind = "bool" -> Ok(PyInt(IF raw.b THEN 1 ELSE 0))
              [] raw.kind = "str" -> int_of_str(raw.s)
              [] OTHER -> Fail("int_type", {})
      [] type = "bool" ->
            CASE raw.kind = "bool" -> Ok(raw)
              [] raw.kind = "int" /\ raw.n \in {0, 1} -> Ok(PyBool(raw.n = 1))
              [] OTHER -> Fail("bool_parsing", {})
      [] OTHER ->
            IF raw.kind = "str" THEN Ok(raw) ELSE Fail("string_type", {})

validate_cache_type(value) ==
    IF value.kind # "str" \/ value.s \notin get_args(SUPPORTED_CACHE_TYPES)
    THEN Fail("value_error", get_args(SUPPORTED_CACHE_TYPES))
    ELSE Ok(value)

\* an omitted field takes its default, which is not validated
ValidateField(f, raw) ==
    IF raw.kind = "absent"
    THEN Ok(Default(f))
    ELSE LET t == ValidateType(FieldType(f), raw)
         IN  IF t.ok /\ f = "cache_type" THEN validate_cache_type(t.value) ELSE t

---------------------------------------------------------------------------
(* The model validator *)

ModelError(ns) == {[loc |-> "", type |-> "value_error", names |-> ns]}

\* any([...]) in place of all([...])
validate_connection_attributes_any(values) ==
    IF values.cache_type = PyStr("RedisCache")
    THEN IF ~Truthy(values.redis_url)
            /\ ~(Truthy(values.redis_host) \/ Truthy(values.redis_password))
         THEN ModelError({"redis_url", "redis_host", "redis_password"})
         ELSE {}
    ELSE IF values.cache_type = PyStr("MongoCache")
    THEN IF ~Truthy(values.mongo_url)
         THEN ModelError({"mongo_url"})
         ELSE {}
    ELSE IF values.cache_type = PyStr("MemCache")
    THEN IF ~Truthy(values.memcache_host)
         THEN ModelError({"memcache_host"})
         ELSE {}
    ELSE {}

\* the MemCache branch testing the wrong host field
validate_connection_attributes_wrong_host(values) ==
    IF values.cache_type = PyStr("RedisCache")
    THEN IF ~Truthy(values.redis_url)
            /\ ~(Truthy(values.redis_host) /\ Truthy(values.redis_password))
         THEN ModelError({"redis_url", "redis_host", "redis_password"})
         ELSE {}
    ELSE IF values.cache_type = PyStr("MongoCache")
    THEN IF ~Truthy(values.mongo_url)
         THEN ModelError({"mongo_url"})
         ELSE {}
    ELSE IF values.cache_type = PyStr("MemCache")
    THEN IF ~Truthy(values.redis_host)
         THEN ModelError({"memcache_host"})
         ELSE {}
    ELSE {}

validate_connection_attributes(values) ==
    IF values.cache_type = PyStr("RedisCache")
    THEN IF ~Truthy(values.redis_url)
            /\ ~(Truthy(values.redis_host) /\ Truthy(values.redis_password))
         THEN ModelError({"redis_url", "redis_host", "redis_password"})
         ELSE {}
    ELSE IF values.cache_type = PyStr("MongoCache")
    THEN IF ~Truthy(values.mongo_url)
         THEN ModelError({"mongo_url"})
         ELSE {}
    ELSE IF values.cache_type = PyStr("MemCache")
    THEN IF ~Truthy(values.memcache_host)
         THEN ModelError({"memcache_host"})
         ELSE {}
    ELSE {}

---------------------------------------------------------------------------
(* The constructor *)

FieldErrors(a) ==
    {[loc |-> f, type |-> ValidateField(f, a[f]).type,
      names |-> ValidateField(f, a[f]).names] :
        f \in {g \in Fields : ~ValidateField(g, a[g]).ok}}

\* the model validator run although a field failed, on the defaults of the
\* failed fields
CacheConfig_validates_after_failure(a) ==
    LET values == [f \in Fields |->
                     IF ValidateField(f, a[f]).ok
                     THEN ValidateField(f, a[f]).value
                     ELSE Default(f)]
        all == FieldErrors(a) \cup validate_connection_attributes(values)
    IN  IF all # {}
        THEN [obj |-> NoConfig, errors |-> all, evaluated |-> TRUE]
        ELSE [obj |-> values, errors |-> {}, evaluated |-> TRUE]

\* the model validator not registered
CacheConfig_without_model_validator(a) ==
    LET values == [f \in Fields |-> ValidateField(f, a[f]).value]
    IN  IF FieldErrors(a) # {}
        THEN [obj |-> NoConfig, errors |-> FieldErrors(a), evaluated |-> FALSE]
        ELSE [obj |-> values, errors |-> {}, evaluated |-> FALSE]

CacheConfig(a) ==
    LET values == [f \in Fields |-> ValidateField(f, a[f]).value]
    IN  IF FieldErrors(a) # {}
        THEN [obj |-> NoConfig, errors |-> FieldErrors(a), evaluated |-> FALSE]
        ELSE IF validate_connection_attributes(values) # {}
        THEN [obj |-> NoConfig,
              errors |-> validate_connection_attributes(values),
              evaluated |-> TRUE]
        ELSE [obj |-> values, errors |-> {}, evaluated |-> TRUE]

---------------------------------------------------------------------------
(* Attribute assignment: BaseModel.__setattr__ with neither frozen nor    *)
(* validate_assignment set in Config stores the value as given.           *)

\* validate_assignment = True
SetAttr_validate_assignment(obj, name, value) ==
    LET new == [obj EXCEPT ![name] = value]
        errs == IF ValidateField(name, value).ok
                THEN validate_connection_attributes(new)
                ELSE {[loc |-> name, type |-> ValidateField(name, value).type,
                       names |-> ValidateField(name, value).names]}
    IN  IF errs = {}
        THEN [obj |-> new, errors |-> {}]
        ELSE [obj |-> obj, errors |-> errs]

SetAttr(obj, name, value) ==
    [obj |-> [obj EXCEPT ![name] = value], errors |-> {}]

---------------------------------------------------------------------------
(* Inputs *)

CacheTypeInputs ==
    {Absent, PyNone, PyStr("bogus"), PyStr("SimpleCache"), PyStr("RedisCache"),
     PyStr("MongoCache"), PyStr("MemCache")}

\* every combination of keyword arguments the construction is tried with
Parameters ==
    [cache_type : CacheTypeInputs,
     default_timeout : {Absent, PyInt(-1), PyInt(0), PyInt(60), PyStr("7"), PyStr("abc")},
     sliding_expiration : {Absent, PyBool(TRUE)},
     redis_url : {Absent, PyStr(""), PyStr("h")},
     redis_host : {Absent, PyNone, PyStr(""), PyStr("h")},
     redis_password : {Absent, PyStr(""), PyStr("h")},
     mongo_url : {Absent, PyStr(""), PyStr("h")},
     memcache_host : {Absent, PyStr(""), PyStr("h"), PyInt(5)}]

\* the keyword arguments of the configurations that are then used and assigned to
LifecycleParameters ==
    [cache_type : CacheTypeInputs \ {PyNone},
     default_timeout : {Absent},
     sliding_expiration : {Absent},
     redis_url : {Absent, PyStr("h")},
     redis_host : {Absent},
     redis_password : {Absent},
     mongo_url : {Absent, PyStr("h")},
     memcache_host : {Absent, PyStr("h")}]

AssignValues(name) ==
    IF name = "cache_type"
    THEN {PyStr("SimpleCache"), PyStr("RedisCache"), PyStr("MongoCache"), PyStr("MemCache")}
    ELSE {PyStr(""), PyStr("h")}

NoArgs == [f \in Fields |-> Absent]

---------------------------------------------------------------------------
(* The cache contract, for the in-process backend: one table, whole       *)
(* seconds, every operation one critical section.                         *)

MaxTime == 4
MaxExpire == 2

Keys == {"k1", "k2"}
Payloads == {"", "v"}
Namespace(key) == IF key = "k1" THEN "ns1" ELSE "ns2"

\* the optional expire argument of set: omitted, or whole seconds
ExpireInputs == {PyNone} \cup {PyInt(e) : e \in -1..MaxExpire}

NoEntry == [present |-> FALSE, payload |-> "", expire_at |-> 0, duration |-> 0]
EmptyStore == [k \in Keys |-> NoEntry]
NoReturn == [key |-> "", ttl |-> 0, payload |-> "", hit |-> FALSE, count |-> 0]
NeverSet == [set |-> FALSE, at |-> 0, hit |-> 0, dur |-> 0]
NoHistory == [k \in Keys |-> NeverSet]

\* the keyword arguments of the configuration governing the cache
CacheParameters ==
    [cache_type : {Absent},
     default_timeout : {PyInt(1)},
     sliding_expiration : {Absent, PyBool(TRUE)},
     redis_url : {Absent},
     redis_host : {Absent},
     redis_password : {Absent},
     mongo_url : {Absent},
     memcache_host : {Absent}]

Miss(st, key) ==
    [store |-> [st EXCEPT ![key] = NoEntry], ttl |-> 0, payload |-> "", hit |-> FALSE]

\* an entry counts as live up to and including its expiry second
get_with_ttl_inclusive(st, t, sliding, key) ==
    IF ~(st[key].present /\ t <= st[key].expire_at)
    THEN Miss(st, key)
    ELSE IF sliding
    THEN [store |-> [st EXCEPT ![key].expire_at = t + st[key].duration],
          ttl |-> st[key].duration, payload |-> st[key].payload, hit |-> TRUE]
    ELSE [store |-> st, ttl |-> st[key].expire_at - t,
          payload |-> st[key].payload, hit |-> TRUE]

get_with_ttl(st, t, sliding, key) ==
    IF ~(st[key].present /\ t < st[key].expire_at)
    THEN Miss(st, key)
    ELSE IF sliding
    THEN [store |-> [st EXCEPT ![key].expire_at = t + st[key].duration],
          ttl |-> st[key].duration, payload |-> st[key].payload, hit |-> TRUE]
    ELSE [store |-> st, ttl |-> st[key].expire_at - t,
          payload |-> st[key].payload, hit |-> TRUE]

\* the read that leaves the expiration alone
get_without_reset(st, t, sliding, key) ==
    IF st[key].present /\ st[key].expire_at > t
    THEN [store |-> st, ttl |-> 0, payload |-> st[key].payload, hit |-> TRUE]
    ELSE Miss(st, key)

get(st, t, sliding, key) ==
    IF st[key].present /\ st[key].expire_at > t
    THEN [store |-> IF sliding
                    THEN [st EXCEPT ![key].expire_at = t + st[key].duration]
                    ELSE st,
          ttl |-> 0, payload |-> st[key].payload, hit |-> TRUE]
    ELSE Miss(st, key)

\* an omitted expire takes default_timeout; a non-positive one stores nothing
Timeout(default_timeout, expire) ==
    IF expire.kind = "none" THEN default_timeout ELSE expire.n

set(st, t, default_timeout, key, value, expire) ==
    IF Timeout(default_timeout, expire) <= 0
    THEN [st EXCEPT ![key] = NoEntry]
    ELSE [st EXCEPT ![key] =
            [present |-> TRUE, payload |-> value,
             expire_at |-> t + Timeout(default_timeout, expire),
             duration |-> Timeout(default_timeout, expire)]]

\* the keys a clear(namespace, key) call is about
Cleared(namespace, key) ==
    IF key.kind # "none"
    THEN {k \in Keys : k = key.s /\ (namespace.kind = "none" \/ Namespace(k) = namespace.s)}
    ELSE IF namespace.kind # "none"
    THEN {k \in Keys : Namespace(k) = namespace.s}
    ELSE Keys

clear(st, t, namespace, key) ==
    [store |-> [k \in Keys |-> IF k \in Cleared(namespace, key) THEN NoEntry ELSE st[k]],
     count |-> Cardinality({k \in Cleared(namespace, key) :
                               st[k].present /\ t < st[k].expire_at})]

---------------------------------------------------------------------------
(* Operations on the configuration *)

Init ==
    /\ args = NoArgs
    /\ cfg = NoConfig
    /\ errors = {}
    /\ evaluated = FALSE
    /\ assigned = FALSE
    /\ op = "init"
    /\ store = EmptyStore
    /\ now = 0
    /\ ret = NoReturn
    /\ hist = NoHistory

\* cfg = CacheConfig(**a), once, at process start
Construct(a) ==
    /\ args' = a
    /\ cfg' = CacheConfig(a).obj
    /\ errors' = CacheConfig(a).errors
    /\ evaluated' = CacheConfig(a).evaluated
    /\ assigned' = FALSE
    /\ op' = "construct"
    /\ UNCHANGED cacheVars

ConstructAny == op = "init" /\ \E a \in Parameters : Construct(a)

ConstructForUse == op = "init" /\ \E a \in LifecycleParameters : Construct(a)

\* cfg.name = value
Assign ==
    /\ cfg # NoConfig
    /\ \E name \in {"cache_type"} \cup ConnectionFields :
         \E value \in AssignValues(name) :
            /\ cfg' = SetAttr(cfg, name, value).obj
            /\ errors' = SetAttr(cfg, name, value).errors
    /\ assigned' = TRUE
    /\ op' = "assign"
    /\ UNCHANGED <<args, evaluated>>
    /\ UNCHANGED cacheVars

\* cfg.name
Read ==
    /\ cfg # NoConfig
    /\ errors' = {}
    /\ op' = "read"
    /\ UNCHANGED <<args, cfg, evaluated, assigned>>
    /\ UNCHANGED cacheVars

\* the backend factory takes the configuration and builds the cache
BackendFactory ==
    /\ cfg # NoConfig
    /\ errors' = {}
    /\ op' = "factory"
    /\ store' = EmptyStore
    /\ UNCHANGED <<args, cfg, evaluated, assigned>>
    /\ UNCHANGED <<now, ret, hist>>

NextConstruct == ConstructAny

SpecConstruct == Init /\ [][NextConstruct]_vars

Next == ConstructForUse \/ Assign \/ Read \/ BackendFactory

Spec == Init /\ [][Next]_vars

---------------------------------------------------------------------------
(* Operations on the cache *)

Sliding == cfg.sliding_expiration.b
DefaultTimeout == cfg.default_timeout.n

\* a configuration was constructed and the factory has built its cache
InitCache ==
    /\ \E a \in CacheParameters :
          /\ args = a
          /\ cfg = CacheConfig(a).obj
          /\ errors = CacheConfig(a).errors
          /\ evaluated = CacheConfig(a).evaluated
    /\ cfg # NoConfig
    /\ assigned = FALSE
    /\ op = "factory"
    /\ store = EmptyStore
    /\ now = 0
    /\ ret = NoReturn
    /\ hist = NoHistory

Tick ==
    /\ now < MaxTime
    /\ now' = now + 1
    /\ op' = "tick"
    /\ UNCHANGED <<store, ret, hist>>
    /\ UNCHANGED confVars

GetWithTTL ==
    /\ \E key \in Keys :
         LET r == get_with_ttl(store, now, Sliding, key)
         IN  /\ store' = r.store
             /\ ret' = [key |-> key, ttl |-> r.ttl, payload |-> r.payload,
                        hit |-> r.hit, count |-> 0]
             /\ hist' = IF r.hit THEN [hist EXCEPT ![key].hit = now] ELSE hist
    /\ op' = "get_with_ttl"
    /\ UNCHANGED now
    /\ UNCHANGED confVars

Get ==
    /\ \E key \in Keys :
         LET r == get(store, now, Sliding, key)
         IN  /\ store' = r.store
             /\ ret' = [key |-> key, ttl |-> 0, payload |-> r.payload,
                        hit |-> r.hit, count |-> 0]
             /\ hist' = IF r.hit THEN [hist EXCEPT ![key].hit = now] ELSE hist
    /\ op' = "get"
    /\ UNCHANGED now
    /\ UNCHANGED confVars

Set ==
    /\ \E key \in Keys, value \in Payloads, expire \in ExpireInputs :
         /\ store' = set(store, now, DefaultTimeout, key, value, expire)
         /\ hist' = [hist EXCEPT ![key] =
                       IF Timeout(DefaultTimeout, expire) <= 0
                       THEN NeverSet
                       ELSE [set |-> TRUE, at |-> now, hit |-> now,
                             dur |-> Timeout(DefaultTimeout, expire)]]
         /\ ret' = NoReturn
    /\ op' = "set"
    /\ UNCHANGED now
    /\ UNCHANGED confVars

Clear ==
    /\ \E namespace \in {PyNone, PyStr("ns1")}, key \in {PyNone, PyStr("k1"), PyStr("k2")} :
         /\ store' = clear(store, now, namespace, key).store
         /\ ret' = [NoReturn EXCEPT !.count = clear(store, now, namespace, key).count]
         /\ hist' = [k \in Keys |->
                       IF k \in Cleared(namespace, key)
                       THEN NeverSet
                       ELSE hist[k]]
    /\ op' = "clear"
    /\ UNCHANGED now
    /\ UNCHANGED confVars

NextCache == Tick \/ GetWithTTL \/ Get \/ Set \/ Clear

SpecCache == InitCache /\ [][NextCache]_vars

---------------------------------------------------------------------------
(* What the claims speak of *)

FourCacheTypes == {"SimpleCache", "RedisCache", "MongoCache", "MemCache"}

\* a supplied, non-empty string
NonEmpty(raw) == raw.kind = "str" /\ raw.s # ""

\* the argument is omitted or is a value its field's annotation takes
Accepted(f, raw) ==
    \/ raw.kind = "absent"
    \/ f = "cache_type" /\ raw.kind = "str" /\ raw.s \in FourCacheTypes
    \/ f = "default_timeout" /\ raw.kind \in {"int", "bool"}
    \/ f = "default_timeout" /\ raw.kind = "str" /\ raw.s \in {"0", "7"}
    \/ f = "sliding_expiration" /\ raw.kind = "bool"
    \/ f = "sliding_expiration" /\ raw.kind = "int" /\ raw.n \in {0, 1}
    \/ f \in ConnectionFields /\ raw.kind = "str"

WellTyped(a) == \A f \in Fields : Accepted(f, a[f])

Constructed == op = "construct" /\ cfg # NoConfig
Rejected == op = "construct" /\ cfg = NoConfig

\* the connection parameters the instance's cache_type requires are there
RequiredPresent(c) ==
    CASE c.cache_type = PyStr("RedisCache") ->
            Truthy(c.redis_url) \/ (Truthy(c.redis_host) /\ Truthy(c.redis_password))
      [] c.cache_type = PyStr("MongoCache") -> Truthy(c.mongo_url)
      [] c.cache_type = PyStr("MemCache") -> Truthy(c.memcache_host)
      [] OTHER -> TRUE

---------------------------------------------------------------------------
(* Claims on construction, under SpecConstruct *)

\* C1: with cache_type RedisCache and well-typed arguments, construction
\* succeeds exactly when redis_url is non-empty or both redis_host and
\* redis_password are non-empty; an empty string counts as missing.
C1_RedisRequiresUrlOrHostAndPassword ==
    (op = "construct" /\ args.cache_type = PyStr("RedisCache") /\ WellTyped(args))
        => ((cfg # NoConfig) <=>
               (\/ NonEmpty(args.redis_url)
                \/ NonEmpty(args.redis_host) /\ NonEmpty(args.redis_password)))

\* a host with an empty password and an empty URL is rejected
C1_Witness ==
    /\ Rejected /\ WellTyped(args)
    /\ args.cache_type = PyStr("RedisCache")
    /\ args.redis_url = PyStr("")
    /\ args.redis_host = PyStr("h")
    /\ args.redis_password = PyStr("")

\* C2: with MongoCache construction succeeds exactly when mongo_url is
\* non-empty, with MemCache exactly when memcache_host is non-empty (the
\* arguments being well-typed); without the required field it fails whatever
\* the other arguments are.
C2_MongoAndMemCacheRequireTheirField ==
    /\ (op = "construct" /\ args.cache_type = PyStr("MongoCache"))
          => /\ WellTyped(args) => ((cfg # NoConfig) <=> NonEmpty(args.mongo_url))
             /\ ~NonEmpty(args.mongo_url) => cfg = NoConfig
    /\ (op = "construct" /\ args.cache_type = PyStr("MemCache"))
          => /\ WellTyped(args) => ((cfg # NoConfig) <=> NonEmpty(args.memcache_host))
             /\ ~NonEmpty(args.memcache_host) => cfg = NoConfig

\* MemCache without its host is rejected although every other connection
\* parameter is given
C2_Witness ==
    /\ Rejected /\ WellTyped(args)
    /\ args.cache_type = PyStr("MemCache")
    /\ args.memcache_host = PyStr("")
    /\ args.redis_url = PyStr("h")
    /\ args.redis_host = PyStr("h")
    /\ args.redis_password = PyStr("h")
    /\ args.mongo_url = PyStr("h")

\* C3: a cache_type that is none of the four supported values fails
\* construction, leaves no Configuration, and the error on cache_type lists
\* the four supported values.
C3_UnsupportedCacheTypeRejected ==
    (/\ op = "construct"
     /\ args.cache_type.kind # "absent"
     /\ ~(args.cache_type.kind = "str" /\ args.cache_type.s \in FourCacheTypes))
        => /\ cfg = NoConfig
           /\ \E e \in errors : e.loc = "cache_type" /\ e.names = FourCacheTypes

C3_Witness ==
    /\ Rejected
    /\ args.cache_type = PyStr("bogus")
    /\ \E e \in errors : e.loc = "cache_type" /\ e.names = FourCacheTypes

\* C5, as claimed: every constructed Configuration has default_timeout > 0.
C5_TimeoutPositive ==
    Constructed => (cfg.default_timeout.kind = "int" /\ cfg.default_timeout.n > 0)

\* C5, amended: every constructed Configuration has an integer
\* default_timeout, 300 when omitted and the given integer otherwise, whatever
\* its sign.
C5_TimeoutIsAnyInteger ==
    Constructed =>
        /\ cfg.default_timeout.kind = "int"
        /\ args.default_timeout.kind = "absent" => cfg.default_timeout.n = 300
        /\ args.default_timeout.kind = "int" => cfg.default_timeout = args.default_timeout

C5_Witness ==
    Constructed /\ args.default_timeout = PyInt(-1) /\ cfg.default_timeout.n = -1

\* C6: with SimpleCache, given or by default, construction succeeds for
\* every combination of absent, empty and non-empty connection parameters.
C6_SimpleCacheNeedsNoConnection ==
    (/\ op = "construct"
     /\ args.cache_type \in {Absent, PyStr("SimpleCache")}
     /\ \A f \in ConnectionFields : args[f].kind \in {"absent", "str"}
     /\ Accepted("default_timeout", args.default_timeout)
     /\ Accepted("sliding_expiration", args.sliding_expiration))
        => (cfg # NoConfig /\ errors = {} /\ cfg.cache_type = PyStr("SimpleCache"))

\* nothing at all is supplied
C6_Witness ==
    Constructed /\ args = NoArgs /\ cfg.cache_type = PyStr("SimpleCache")

\* C10: when cache_type is unrecognized or a field is ill-typed, construction
\* fails with errors on exactly those fields, and the connection rule is not
\* evaluated and reports nothing.
C10_CrossFieldRuleAfterFields ==
    (op = "construct" /\ ~WellTyped(args))
        => /\ cfg = NoConfig
           /\ ~evaluated
           /\ {e.loc : e \in errors} = {f \in Fields : ~Accepted(f, args[f])}

\* an ill-typed timeout hides the missing Redis connection parameters
C10_Witness ==
    /\ Rejected
    /\ args.cache_type = PyStr("RedisCache")
    /\ args.default_timeout = PyStr("abc")
    /\ \A f \in ConnectionFields : args[f] = Absent
    /\ {e.loc : e \in errors} = {"default_timeout"}

---------------------------------------------------------------------------
(* Claims on the life of a Configuration, under Spec *)

C7_NoValidationErrorAfterConstruction ==
    op \in {"read", "assign", "factory"} => errors = {}

\* an assignment that breaks the connection rule goes through silently
C7_Witness ==
    op = "assign" /\ cfg # NoConfig /\ ~RequiredPresent(cfg) /\ errors = {}

---------------------------------------------------------------------------
(* Claims on the cache contract, under SpecCache *)

\* the key does not exist in the table or its entry has expired
Gone(k) == ~store[k].present \/ now >= store[k].expire_at

\* C8: in every state reached by set, clear, reads and the passing of time,
\* get_with_ttl on a key that does not exist or has expired returns (0,
\* absent), get returns absent exactly when get_with_ttl returns (0, absent),
\* and otherwise both return the same payload.
C8_MissIsZeroAbsentAndGetAgrees ==
    /\ \A k \in Keys :
         LET w == get_with_ttl(store, now, Sliding, k)
             g == get(store, now, Sliding, k)
         IN  /\ Gone(k) => (w.ttl = 0 /\ ~w.hit)
             /\ ~g.hit <=> (w.ttl = 0 /\ ~w.hit)
             /\ g.hit => (w.hit /\ g.payload = w.payload)
    /\ (op = "get_with_ttl" /\ ~ret.hit) => ret.ttl = 0

\* get_with_ttl has just missed a key that was set and has expired, while
\* the other key is live
C8_Witness ==
    /\ op = "get_with_ttl" /\ ~ret.hit /\ ret.ttl = 0
    /\ \E k \in Keys :
         /\ ret.key = k
         /\ hist[k].set /\ now >= hist[k].at + hist[k].dur
         /\ \E j \in Keys \ {k} : ~Gone(j)

\* C9: with sliding_expiration, an entry that was set or read less than its
\* duration ago is found by get, and the read leaves it its full duration
\* again; without it, get finds no entry whose set is at least its duration
\* ago, whatever reads there were.
C9_SlidingExpiration ==
    \A k \in Keys :
        hist[k].set =>
            /\ (Sliding /\ now < hist[k].hit + hist[k].dur)
                  => /\ get(store, now, Sliding, k).hit
                     /\ get(store, now, Sliding, k).store[k].expire_at = now + hist[k].dur
                     /\ get_with_ttl(store, now, Sliding, k).hit
                     /\ get_with_ttl(store, now, Sliding, k).ttl = hist[k].dur
            /\ (~Sliding /\ now >= hist[k].at + hist[k].dur)
                  => /\ ~get(store, now, Sliding, k).hit
                     /\ ~get_with_ttl(store, now, Sliding, k).hit

\* an entry set for 2 seconds is still found by get 4 seconds later
C9_Witness ==
    /\ Sliding /\ op = "get" /\ ret.hit
    /\ \E k \in Keys :
         /\ ret.key = k
         /\ hist[k].set /\ hist[k].dur = 2 /\ hist[k].hit = now
         /\ now >= hist[k].at + 4

====
